---- MODULE Spec2Model ----
(***************************************************************************)
(* A model of the weight journal (JJQAD/weight-app): the auto-save variant *)
(* src/unnamed/part_001 ("Mass - Phase 1") and the Save-button variant     *)
(* src/app.js.                                                             *)
(*                                                                         *)
(* Representation.                                                         *)
(*  - An ISO date string "YYYY-MM-DD" is the tuple <<y, m, d>> of its      *)
(*    zero-padded fields; the empty string is <<>>.  String comparison     *)
(*    (localeCompare, ===) is comparison of these tuples; calendar         *)
(*    arithmetic goes through the Date normalisation of shiftISO.          *)
(*  - A weight is a number of tenths (184.3 is 1843).                      *)
(*  - A text (the value of an input element) is a tuple of one-character   *)
(*    strings.                                                             *)
(*  - A JSON value stored in localStorage is [t |-> typeof, v |-> tuple].  *)
(***************************************************************************)
EXTENDS Integers, Sequences, FiniteSets, TLC

(* ------------------------------ bounds -------------------------------- *)

\* How many days before the first day of the session NavigatePrev may reach.
MaxBack == 1
\* How many timers may be pending at once: those of commitSwipe (165 ms and
\* 16 ms) in part_001; in app.js those of animateSwipe (140 ms) and the
\* 900 ms ones of the save button.
MaxPending == 1

(* ------------------------- program constants -------------------------- *)

threshold == 70
restraint == 90
allowedTime == 450
deadZone == 10
maxWeight == 1400
defaultWidth == 320
appThreshold == 40
appRestraint == 60
hintOffset == 18

(* --------------------------- DATE HELPERS ----------------------------- *)

\* An ISO date text is the tuple <<y, m, d, z>>: the year y written with z
\* leading zeros, then "-", the month in two digits, "-" and the day in two
\* digits.  Two date texts are the same string iff their tuples are equal.
\* The empty string is <<>>.

\* `${yyyy}-${mm}-${dd}`: the year as String(yyyy) writes it, month and day
\* padded to two digits.
Iso(y, m, d) == <<y, m, d, 0>>

\* The value of the date picker for the day y-m-d: a date string of the
\* browser, whose year has at least four digits.
Picked(y, m, d) ==
  <<y, m, d, IF y < 10 THEN 3 ELSE IF y < 100 THEN 2 ELSE IF y < 1000 THEN 1 ELSE 0>>

IsLeap(y) == (y % 4 = 0 /\ y % 100 # 0) \/ y % 400 = 0

DaysInMonth(y, m) ==
  IF m = 2 THEN (IF IsLeap(y) THEN 29 ELSE 28)
  ELSE IF m \in {4, 6, 9, 11} THEN 30 ELSE 31

\* A Date whose day is outside the month rolls into the neighbouring months
\* (and years) until the day fits: the fields <<year, month, day>>.
RECURSIVE RollDate(_, _, _)
RollDate(y, m, d) ==
  IF d < 1
    THEN IF m = 1 THEN RollDate(y - 1, 12, d + 31)
                  ELSE RollDate(y, m - 1, d + DaysInMonth(y, m - 1))
  ELSE IF d > DaysInMonth(y, m)
    THEN IF m = 12 THEN RollDate(y + 1, 1, d - 31)
                   ELSE RollDate(y, m + 1, d - DaysInMonth(y, m))
  ELSE <<y, m, d>>

\* The year a Date takes from the argument y: 1900 + y for y from 0 to 99.
FullYear(y) == IF y >= 0 /\ y <= 99 THEN 1900 + y ELSE y

\* new Date(y, m - 1, d): the fields of the date.
NormalizeDate(y, m, d) == RollDate(FullYear(y), m, d)

\* shiftISO(iso, deltaDays): new Date(y, m - 1, d), setDate(getDate() +
\* deltaDays), and the fields written as a date text, the year without
\* leading zeros.  Rolling the day d + deltaDays gives the date that
\* rolling d and then moving by deltaDays gives.
shiftISO(iso, deltaDays) ==
  Append(NormalizeDate(iso[1], iso[2], iso[3] + deltaDays), 0)

\* The days of the year y before its month m.
DaysBeforeMonth(y, m) ==
  <<0, 31, 59, 90, 120, 151, 181, 212, 243, 273, 304, 334>>[m]
    + (IF m > 2 /\ IsLeap(y) THEN 1 ELSE 0)

\* The number of the day y-m-d in the calendar.
DayCount(y, m, d) ==
  365 * y + ((y - 1) \div 4) - ((y - 1) \div 100) + ((y - 1) \div 400)
    + DaysBeforeMonth(y, m) + d

\* new Date(y, m - 1, d).getTime() for the fields of a date text, counted
\* in days.  A day outside its month counts on into the neighbouring months,
\* so the count of the fields as given is the count of the rolled date.
DateTime(iso) == DayCount(FullYear(iso[1]), iso[2], iso[3])

Abs(x) == IF x < 0 THEN -x ELSE x

(* ------------------------------- TEXT --------------------------------- *)

Digits == <<"0", "1", "2", "3", "4", "5", "6", "7", "8", "9">>

\* The value of each digit character.
DigitOf == [c \in {Digits[i] : i \in 1..10} |-> (CHOOSE i \in 1..10 : Digits[i] = c) - 1]

IsDigit(c) == c \in DOMAIN DigitOf

DigitVal(c) == DigitOf[c]

RECURSIVE NatText(_)
NatText(n) ==
  IF n < 10 THEN <<Digits[n + 1]>>
  ELSE IF n < 100 THEN <<Digits[(n \div 10) + 1], Digits[(n % 10) + 1]>>
  ELSE IF n < 1000
    THEN <<Digits[(n \div 100) + 1], Digits[((n \div 10) % 10) + 1], Digits[(n % 10) + 1]>>
  ELSE IF n < 10000
    THEN <<Digits[(n \div 1000) + 1], Digits[((n \div 100) % 10) + 1],
           Digits[((n \div 10) % 10) + 1], Digits[(n % 10) + 1]>>
  ELSE NatText(n \div 10) \o <<Digits[(n % 10) + 1]>>

\* The year of a date text, as the text writes it.
YearText(iso) ==
  IF iso[4] = 0 THEN NatText(iso[1]) ELSE [i \in 1..iso[4] |-> "0"] \o NatText(iso[1])

\* String(n).padStart(2, "0") for a month or a day.
TwoDigits(n) == <<Digits[(n \div 10) + 1], Digits[(n % 10) + 1]>>

\* The characters of a date text.
IsoText(iso) ==
  IF iso = <<>> THEN <<>>
  ELSE YearText(iso) \o <<"-">> \o TwoDigits(iso[2]) \o <<"-">> \o TwoDigits(iso[3])

\* The place of a character of a date text in the collation order: the
\* hyphen sorts before the digits.
CharRank(c) == IF c = "-" THEN 0 ELSE DigitVal(c) + 1

RECURSIVE TextLess(_, _)
TextLess(a, b) ==
  IF b = <<>> THEN FALSE
  ELSE IF a = <<>> THEN TRUE
  ELSE IF Head(a) # Head(b) THEN CharRank(Head(a)) < CharRank(Head(b))
  ELSE TextLess(Tail(a), Tail(b))

\* a.localeCompare(b) < 0 on two date texts: the strings are compared
\* character by character, so "999-06-14" sorts after "2024-03-02".  Two
\* texts whose years are written alike first differ in the month or the day,
\* two digits each, which then order as their numbers do.
StrLess(a, b) ==
  IF a # <<>> /\ b # <<>> /\ a[1] = b[1] /\ a[4] = b[4]
    THEN a[2] < b[2] \/ (a[2] = b[2] /\ a[3] < b[3])
    ELSE TextLess(IsoText(a), IsoText(b))

\* String(weight) for a weight held in tenths.
WeightText(w) ==
  LET a == IF w < 0 THEN -w ELSE w
      body == NatText(a \div 10) \o
              (IF a % 10 = 0 THEN <<>> ELSE <<".", Digits[(a % 10) + 1]>>)
  IN IF w < 0 THEN <<"-">> \o body ELSE body

\* The white space and line terminators String.prototype.trim() strips:
\* tab, line feed, vertical tab, form feed, carriage return, space,
\* no-break space, U+1680 and U+FEFF.  (The spaces U+2000..U+200A, U+2028,
\* U+2029, U+202F, U+205F and U+3000 are white space too; a TLA+ string
\* cannot hold them, so no text of the model does.)
WhiteSpace == {"\t", "\n", "", "\f", "\r", " ", " ", " ", "﻿"}

RECURSIVE TrimLeft(_)
TrimLeft(s) == IF s # <<>> /\ Head(s) \in WhiteSpace THEN TrimLeft(Tail(s)) ELSE s

RECURSIVE TrimRight(_)
TrimRight(s) ==
  IF s # <<>> /\ s[Len(s)] \in WhiteSpace
    THEN TrimRight(SubSeq(s, 1, Len(s) - 1)) ELSE s

Trim(s) == TrimRight(TrimLeft(s))

\* s.replace(",", "."): the first comma only.
RECURSIVE ReplaceFirstComma(_)
ReplaceFirstComma(s) ==
  IF s = <<>> THEN <<>>
  ELSE IF Head(s) = "," THEN <<".">> \o Tail(s)
  ELSE <<Head(s)>> \o ReplaceFirstComma(Tail(s))

RECURSIVE AllDigits(_)
AllDigits(s) == s = <<>> \/ (IsDigit(Head(s)) /\ AllDigits(Tail(s)))

RECURSIVE DigitsVal(_)
DigitsVal(s) ==
  IF s = <<>> THEN 0 ELSE 10 * DigitsVal(SubSeq(s, 1, Len(s) - 1)) + DigitVal(s[Len(s)])

RECURSIVE Pow10(_)
Pow10(k) == IF k = 0 THEN 1 ELSE 10 * Pow10(k - 1)

DotAt(s) == IF \E i \in 1..Len(s) : s[i] = "."
            THEN CHOOSE i \in 1..Len(s) : s[i] = "." /\ \A j \in 1..(i - 1) : s[j] # "."
            ELSE 0

\* The place of the exponent indicator of a decimal literal, 0 for none.
ExpAt(s) == IF \E i \in 1..Len(s) : s[i] \in {"e", "E"}
            THEN CHOOSE i \in 1..Len(s) :
                   s[i] \in {"e", "E"} /\ \A j \in 1..(i - 1) : s[j] \notin {"e", "E"}
            ELSE 0

\* The results of Number(): NaN, the infinities, and the finite number
\* m / 10^k (k < 0 for a literal with an exponent above its fraction).
NaN == [ok |-> FALSE, fin |-> FALSE, m |-> 0, k |-> 0]
Infinity == [ok |-> TRUE, fin |-> FALSE, m |-> 1, k |-> 0]
Finite(m, k) == [ok |-> TRUE, fin |-> TRUE, m |-> m, k |-> k]
Negate(n) == [n EXCEPT !.m = -n.m]

\* The number of decimal digits of m > 0.
NumDigits(m) == Len(NatText(m))

\* The first 9 digits of m > 0, padded with zeros when it has fewer.
Lead9(m) ==
  LET Pad(n) == IF n <= 9 THEN m * Pow10(9 - n) ELSE m \div 10
  IN Pad(NumDigits(m))

\* Whether the double nearest to m / 10^k, m > 0, is 0: m / 10^k is at most
\* 2^-1075 = 2.4703282292...e-324.
RoundsToZero(m, k) ==
  LET AtMost(order, lead) == order <= -324 \/ (order = -323 /\ lead <= 247032822)
  IN AtMost(NumDigits(m) - k, Lead9(m))

\* Whether the double nearest to m / 10^k, m > 0, is Infinity: m / 10^k is
\* at least 2^1024 - 2^970 = 1.797693134862315807...e308.
RoundsToInfinity(m, k) ==
  LET AtLeast(digits, lead) ==
        \/ digits - k > 309
        \/ /\ digits - k = 309
           /\ \/ lead > 179769313
              \/ lead = 179769313 /\ digits = 10 /\ m % 10 >= 5
  IN AtLeast(NumDigits(m), Lead9(m))

\* StrUnsignedDecimalLiteral: Infinity, or digits with an optional point
\* and an optional exponent part. The literal is split at the exponent
\* indicator x, its mantissa at the point p into the digits ip and fp, and
\* the exponent into its sign and the digits exDigits.
DecimalLiteral(s) ==
  LET Value(m, k) ==
        IF m = 0 THEN Finite(0, 0)
        ELSE IF RoundsToInfinity(m, k) THEN Infinity
        ELSE IF RoundsToZero(m, k) THEN Finite(0, 0)
        ELSE Finite(m, k)
      Exponent10(exNeg, e) == IF exNeg THEN -e ELSE e
      Parts(ip, fp, x, exNeg, exDigits) ==
        IF ~(AllDigits(ip) /\ AllDigits(fp) /\ Len(ip) + Len(fp) > 0) THEN NaN
        ELSE IF x # 0 /\ ~(AllDigits(exDigits) /\ exDigits # <<>>) THEN NaN
        ELSE Value(DigitsVal(ip \o fp),
                   Len(fp) - Exponent10(exNeg, DigitsVal(exDigits)))
      AtPoint(mant, p, x, ex) ==
        Parts(IF p = 0 THEN mant ELSE SubSeq(mant, 1, p - 1),
              IF p = 0 THEN <<>> ELSE SubSeq(mant, p + 1, Len(mant)),
              x,
              ex # <<>> /\ Head(ex) = "-",
              IF ex # <<>> /\ Head(ex) \in {"+", "-"} THEN Tail(ex) ELSE ex)
      Halves(mant, x, ex) == AtPoint(mant, DotAt(mant), x, ex)
      AtExp(x) ==
        Halves(IF x = 0 THEN s ELSE SubSeq(s, 1, x - 1), x,
               IF x = 0 THEN <<>> ELSE SubSeq(s, x + 1, Len(s)))
  IN IF s = <<"I", "n", "f", "i", "n", "i", "t", "y">> THEN Infinity
     ELSE AtExp(ExpAt(s))

\* The value of a digit of a hex, octal or binary literal, 99 for any other
\* character.
RadixDigitVal(c) ==
  IF IsDigit(c) THEN DigitVal(c)
  ELSE IF c \in {"a", "A"} THEN 10
  ELSE IF c \in {"b", "B"} THEN 11
  ELSE IF c \in {"c", "C"} THEN 12
  ELSE IF c \in {"d", "D"} THEN 13
  ELSE IF c \in {"e", "E"} THEN 14
  ELSE IF c \in {"f", "F"} THEN 15
  ELSE 99

RECURSIVE RadixVal(_, _)
RadixVal(s, radix) ==
  IF s = <<>> THEN 0
  ELSE radix * RadixVal(SubSeq(s, 1, Len(s) - 1), radix) + RadixDigitVal(s[Len(s)])

\* The radix of a literal that starts with 0x, 0o or 0b, 0 for any other.
RadixOf(s) ==
  IF Len(s) < 2 \/ s[1] # "0" THEN 0
  ELSE IF s[2] \in {"x", "X"} THEN 16
  ELSE IF s[2] \in {"o", "O"} THEN 8
  ELSE IF s[2] \in {"b", "B"} THEN 2
  ELSE 0

\* NonDecimalIntegerLiteral: 0x, 0o or 0b and at least one digit of the radix.
NonDecimalLiteral(s) ==
  LET radix == RadixOf(s)
      ds == SubSeq(s, 3, Len(s))
  IN IF ds # <<>> /\ \A i \in 1..Len(ds) : RadixDigitVal(ds[i]) < radix
       THEN Finite(RadixVal(ds, radix), 0)
       ELSE NaN

\* Number(s) for s without sign and without white space around it.
UnsignedNumber(s) ==
  IF RadixOf(s) # 0 THEN NonDecimalLiteral(s) ELSE DecimalLiteral(s)

\* Number(s): white space around the literal is skipped, the empty text is
\* 0, a sign goes with a decimal literal only, anything else is NaN.
ToNumber(s) ==
  LET Signed(sign, n) == IF sign = "-" THEN Negate(n) ELSE n
      Literal(t) ==
        IF t = <<>> THEN Finite(0, 0)
        ELSE IF Head(t) \in {"-", "+"} THEN Signed(Head(t), DecimalLiteral(Tail(t)))
        ELSE UnsignedNumber(t)
  IN Literal(Trim(s))

\* n > 1400 for n = m / 10^k, m > 0.
AboveMax(m, k) ==
  IF k <= 0
    THEN k <= -4 \/ m > maxWeight \/ m * Pow10(-k) > maxWeight
    ELSE k <= 6 /\ m > maxWeight * Pow10(k)

\* Math.floor(n * 10) in the place of Math.round(n * 10).
FloorTenths(m, k) ==
  IF k <= 0 THEN 10 * m * Pow10(-k)
  ELSE IF k >= 11 THEN 0
  ELSE m \div Pow10(k - 1)

\* Math.round(n * 10) for n = m / 10^k, 0 < n <= 1400: the nearest integer,
\* a tie going up.
RoundTenths(m, k) ==
  IF k <= 0 THEN 10 * m * Pow10(-k)
  ELSE IF k >= 11 THEN 0
  ELSE LET p == Pow10(k - 1) IN
       (m \div p) + (IF 2 * (m % p) >= p THEN 1 ELSE 0)

\* parseWeight(raw): <<>> for null, <<w>> for the weight w (in tenths).
parseWeight(raw) ==
  LET Checked(n) ==
        IF ~n.ok \/ ~n.fin \/ n.m <= 0 THEN <<>>
        ELSE IF AboveMax(n.m, n.k) THEN <<>>
        ELSE <<RoundTenths(n.m, n.k)>>
      Parsed(normalized) ==
        IF normalized = <<>> THEN <<>> ELSE Checked(ToNumber(normalized))
  IN Parsed(ReplaceFirstComma(Trim(raw)))

(* ----------------------------- STORAGE -------------------------------- *)

\* JSON values as localStorage holds them.
JStr(s) == [t |-> "string", v |-> s]
JNum(n) == [t |-> "number", v |-> <<n>>]
JUndef == [t |-> "undefined", v |-> <<>>]

\* A JSON array element: an object with its three fields, or null.
JObj(d, w, c) == [truthy |-> TRUE, entryDate |-> d, weight |-> w, createdAt |-> c]
JNull == [truthy |-> FALSE, entryDate |-> JUndef, weight |-> JUndef, createdAt |-> JUndef]

\* What localStorage.getItem(STORAGE_KEY) returns: null, text that is not
\* JSON, JSON that is not an array, or a JSON array.
NoItem == [kind |-> "null", items |-> <<>>]
BadJson == [kind |-> "badjson", items |-> <<>>]
NonArray == [kind |-> "nonarray", items |-> <<>>]
JArray(items) == [kind |-> "array", items |-> items]

Entry(d, w, c) == [entryDate |-> d, weight |-> w, createdAt |-> c]

RECURSIVE FilterMapLoaded(_, _)
FilterMapLoaded(items, t) ==
  IF items = <<>> THEN <<>>
  ELSE LET e == Head(items)
           rest == FilterMapLoaded(Tail(items), t)
       IN IF e.truthy /\ e.entryDate.t = "string" /\ e.weight.t = "number"
            THEN <<Entry(e.entryDate.v, e.weight.v[1],
                         IF e.createdAt.t = "number" THEN e.createdAt.v[1] ELSE t)>> \o rest
            ELSE rest

\* loadEntries() on the stored item `raw`; t is Date.now().
loadEntries(raw, t) ==
  IF raw.kind # "array" THEN <<>> ELSE FilterMapLoaded(raw.items, t)

\* JSON.stringify(entries), as the stored item.
Stringify(es) ==
  JArray([i \in 1..Len(es) |->
            JObj(JStr(es[i].entryDate), JNum(es[i].weight), JNum(es[i].createdAt))])

\* Insert e into a sorted list after every element that does not sort after it.
RECURSIVE InsertSorted(_, _)
InsertSorted(sorted, e) ==
  IF sorted = <<>> THEN <<e>>
  ELSE IF StrLess(e.entryDate, Head(sorted).entryDate) THEN <<e>> \o sorted
  ELSE <<Head(sorted)>> \o InsertSorted(Tail(sorted), e)

\* entries.sort((a, b) => a.entryDate.localeCompare(b.entryDate)): a stable
\* sort, ascending by entryDate.
RECURSIVE sortEntries(_)
sortEntries(es) ==
  IF es = <<>> THEN <<>>
  ELSE InsertSorted(sortEntries(SubSeq(es, 1, Len(es) - 1)), es[Len(es)])

\* entries.find(e => e.entryDate === iso) || null: <<>> for null, <<e>>.
findEntry(es, iso) ==
  IF \E i \in 1..Len(es) : es[i].entryDate = iso
    THEN <<es[CHOOSE i \in 1..Len(es) :
                /\ es[i].entryDate = iso
                /\ \A j \in 1..(i - 1) : es[j].entryDate # iso]>>
    ELSE <<>>

\* entries.filter(e => e.entryDate !== iso)
RemoveDay(es, iso) == SelectSeq(es, LAMBDA e : e.entryDate # iso)

\* upsertEntry without its filter: the new entry is appended to the old ones.
AppendEntry(es, iso, weight, t) ==
  sortEntries(Append(es, Entry(iso, weight, t)))

\* upsertEntry(iso, weight): the new value of entries; t is Date.now().
upsertEntry(es, iso, weight, t) ==
  sortEntries(Append(RemoveDay(es, iso), Entry(iso, weight, t)))

(* --------------- GRAPH (7 days, upper-third scaling) ------------------ *)

\* new Map(entries.map(e => [e.entryDate, e.weight])).get(iso): the weight
\* of the last entry of that day; <<>> when the map has no such key.
MapGet(es, iso) ==
  IF \E i \in 1..Len(es) : es[i].entryDate = iso
    THEN <<es[CHOOSE i \in 1..Len(es) :
                /\ es[i].entryDate = iso
                /\ \A j \in (i + 1)..Len(es) : es[j].entryDate # iso].weight>>
    ELSE <<>>

WeekDays(endISO) == [i \in 1..7 |-> shiftISO(endISO, i - 7)]

\* The loop over days: a point is <<v>> for a number and <<>> for null;
\* `lastSeen` is the loop's variable `last`.
RECURSIVE FillValues(_, _, _)
FillValues(es, days, lastSeen) ==
  IF days = <<>> THEN <<>>
  ELSE LET v == MapGet(es, Head(days)) IN
       IF v # <<>> THEN <<v>> \o FillValues(es, Tail(days), v)
       ELSE <<lastSeen>> \o FillValues(es, Tail(days), lastSeen)

SeqMin(nums) == CHOOSE x \in {nums[i] : i \in 1..Len(nums)} :
                  \A i \in 1..Len(nums) : x <= nums[i]
SeqMax(nums) == CHOOSE x \in {nums[i] : i \in 1..Len(nums)} :
                  \A i \in 1..Len(nums) : x >= nums[i]

\* getWeekSeries whose loop starts with last = 0 instead of null.
ZeroFilledWeekSeries(es, endISO) ==
  LET days == WeekDays(endISO)
      values == FillValues(es, days, <<0>>)
      present == SelectSeq(values, LAMBDA p : p # <<>>)
      nums == [i \in 1..Len(present) |-> present[i][1]]
  IN [labels |-> [i \in 1..7 |-> days[i][3]],
      values |-> values,
      dataMin |-> IF Len(nums) > 0 THEN SeqMin(nums) ELSE 0,
      dataMax |-> IF Len(nums) > 0 THEN SeqMax(nums) ELSE 10]

\* getWeekSeries(endISO): labels are days of the month, values are points,
\* dataMin and dataMax are in tenths.
getWeekSeries(es, endISO) ==
  LET Series(days, values, nums) ==
        [labels |-> [i \in 1..7 |-> days[i][3]],
         values |-> values,
         dataMin |-> IF Len(nums) > 0 THEN SeqMin(nums) ELSE 0,
         dataMax |-> IF Len(nums) > 0 THEN SeqMax(nums) ELSE 10]
      Present(days, values, present) ==
        Series(days, values, [i \in 1..Len(present) |-> present[i][1]])
      Filled(days, values) ==
        Present(days, values, SelectSeq(values, LAMBDA p : p # <<>>))
      Week(days) == Filled(days, FillValues(es, days, <<>>))
  IN Week(WeekDays(endISO))

\* The weights are doubles: a weight of w tenths is the double nearest to
\* w / 10, and dataMax - dataMin is the double nearest to the difference of
\* two such doubles.  The operators below tell on which side of an integer
\* that difference falls.

RECURSIVE Pow2(_)
Pow2(k) == IF k = 0 THEN 1 ELSE 2 * Pow2(k - 1)

\* floor(log2(n)) for n >= 1.
RECURSIVE Log2Floor(_)
Log2Floor(n) == IF n < 2 THEN 0 ELSE 1 + Log2Floor(n \div 2)

\* floor(log2(w / 10)) for w > 0 tenths: the exponent of the double w / 10.
RECURSIVE Exponent(_)
Exponent(w) ==
  IF w >= 20 THEN 1 + Exponent(w \div 2)
  ELSE IF w < 10 THEN Exponent(2 * w) - 1
  ELSE 0

\* 2^k mod 10 for k >= 1.
Pow2Mod10(k) == <<6, 2, 4, 8>>[(k % 4) + 1]

\* The rounding error of the double nearest to w / 10, w > 0, in tenths of
\* its unit in the last place 2^(Exponent(w) - 52).
UlpError(w) ==
  LET r == ((w % 10) * Pow2Mod10(52 - Exponent(w))) % 10 IN
  IF r < 5 THEN -r ELSE 10 - r

SignedUlpError(w) ==
  IF w = 0 THEN 0 ELSE IF w > 0 THEN UlpError(w) ELSE -UlpError(-w)

\* Whether dataMax - dataMin, computed on the doubles of two weights that
\* are a whole number n of units apart (at least one), is below n.  The
\* exact difference is n + d units of 2^(emin - 52); below a power of two
\* it lies in the binade under that power, where the doubles are twice as
\* dense.
RangeBelow(dataMin, dataMax) ==
  LET Below(d, g) == d < 0 /\ (g = 1 \/ 2 * (-d) > g)
      Spaced(d, ed, emin) == Below(d, IF ed > emin THEN Pow2(ed - emin) ELSE 1)
      Apart(d, n, emin) ==
        Spaced(d, IF d < 0 /\ n = Pow2(Log2Floor(n)) THEN Log2Floor(n) - 1
                  ELSE Log2Floor(n), emin)
      Errors(ea, eb, emin) ==
        Apart((SignedUlpError(dataMax) * Pow2(ea - emin)
                 - SignedUlpError(dataMin) * Pow2(eb - emin)) \div 10,
              (dataMax - dataMin) \div 10, emin)
      Aligned(ea, eb) == Errors(ea, eb, IF ea < eb THEN ea ELSE eb)
      Exponents(ea) ==
        Aligned(ea, IF dataMin # 0 THEN Exponent(Abs(dataMin)) ELSE ea)
  IN Exponents(IF dataMax # 0 THEN Exponent(Abs(dataMax)) ELSE Exponent(Abs(dataMin)))

\* Math.max(1, Math.round(range / 2)) for range = dataMax - dataMin floored
\* at 1, given in tenths: a tie goes up, unless the double range is below
\* the odd number of units the weights are apart.
AxisStep(dataMin, dataMax, range) ==
  LET half == IF range % 20 = 10 /\ range = dataMax - dataMin
                   /\ RangeBelow(dataMin, dataMax)
                THEN range \div 20
                ELSE (range + 10) \div 20
  IN IF half > 1 THEN half ELSE 1

\* computeAxisUpperThird(dataMin, dataMax), dataMin and dataMax in tenths:
\* yMin and yMax in hundredths, step in units.
computeAxisUpperThird(dataMin, dataMax) ==
  LET r == dataMax - dataMin
      range == IF r < 10 THEN 10 ELSE r
      yMax == 10 * dataMax + 2 * range
      yMin == yMax - 30 * range
  IN [yMin |-> yMin, yMax |-> yMax, step |-> AxisStep(dataMin, dataMax, range)]

\* renderChart(): what the chart is given.
renderChart(es, iso) ==
  LET Drawn(s, a) ==
        [labels |-> s.labels, values |-> s.values,
         yMin |-> a.yMin, yMax |-> a.yMax, step |-> a.step]
      Scaled(s) == Drawn(s, computeAxisUpperThird(s.dataMin, s.dataMax))
  IN Scaled(getWeekSeries(es, iso))

(* ------------------------------- UI ----------------------------------- *)

\* isoToMMDDYY(iso): the fields of `${m}.${d}.${y.slice(2)}`, the last one
\* as text ("24" for the year "2024", "9" for "999", "99" for "0999").
isoToMMDDYY(iso) ==
  LET Sliced(y) == <<iso[2], iso[3], SubSeq(y, 3, Len(y))>>
  IN Sliced(YearText(iso))

\* fillWeightForSelectedDate reading the entry of the day after iso.
FillFromNextDay(es, iso) ==
  LET entry == findEntry(es, shiftISO(iso, 1)) IN
  IF entry # <<>> THEN WeightText(entry[1].weight) ELSE <<>>

\* fillWeightForSelectedDate(): the new value of the weight input.
fillWeightForSelectedDate(es, iso) ==
  LET entry == findEntry(es, iso) IN
  IF entry # <<>> THEN WeightText(entry[1].weight) ELSE <<>>

\* The status line, as the parts of its text: a template literal gives
\* its fixed parts, the text of the weight and the fields of the day.
NoStatus == <<>>
InvalidStatus == <<"Invalid weight.">>
MissingStatus == <<"Missing date.">>
FutureStatus == <<"Future dates blocked.">>
SavedStatus(w, iso) == <<"Saved ", WeightText(w), " for ", isoToMMDDYY(iso), ".">>

(* ------------------------------ STATE --------------------------------- *)

VARIABLES
  today,        \* the local calendar day of the wall clock
  now,          \* Date.now()
  clientWidth,  \* touchsurface.clientWidth, in px (0 while it has no layout)
  storage,      \* localStorage item STORAGE_KEY
  entries,      \* let entries
  selectedISO,  \* let selectedISO (<<>> for null)
  weightInput,  \* els.weightInput.value
  statusText,   \* els.statusText.textContent
  dateLabel,    \* els.dateLabel.textContent
  chart,        \* the labels, data and y axis the chart holds
  startX, startY, distX, distY, startTime, locked, lockDir,  \* addSwipe()
  armed,        \* history: an accepted touchstart of part_001 has run, and no
                \* commitSwipe or touchcancel since
  typedISO,     \* history: selectedISO when the weight staged in the field of
                \* app.js was typed (<<>> while the field holds no weight)
  track,        \* translateX of els.swipeTrack, in px
  timers,       \* pending 165 ms callbacks of commitSwipe, oldest first
  slideIns,     \* pending 16 ms callbacks of commitSwipe's callback
  fingers,      \* touch points on the swipe stage
  program,      \* the script the page runs: "none" until its init() has run
  saveButton,   \* app.js: the state class of els.saveButton
  dateInput,    \* app.js: els.dateInput.value
  active,       \* app.js: let active of addSwipeNavigation()
  trackClass,   \* app.js: the slide class of els.swipeTrack ("" for none)
  idleTimers,   \* app.js: pending 900 ms timers
  recentList    \* app.js: the items of els.recentList

storeVars == <<storage, entries>>
viewVars == <<selectedISO, weightInput, statusText, dateLabel, chart>>
swipeVars == <<startX, startY, distX, distY, startTime, locked, lockDir>>
histVars == <<armed, typedISO>>
timerVars == <<timers, slideIns>>
envVars == <<today, now, clientWidth>>
appVars == <<saveButton, dateInput, active, trackClass, idleTimers, recentList>>
vars == <<envVars, storeVars, viewVars, swipeVars, histVars, track, timerVars, fingers, program,
         appVars>>

\* The wall clock's day when the page loads, and the last day it reaches.
Today0 == Iso(2024, 3, 2)
LastDay == Iso(2024, 3, 3)

\* Days of the past that the date picker can hand over: one of a year
\* below 1000 and one of a year below 100.
OldPicks == {Picked(999, 6, 15), Picked(50, 1, 1)}

\* The days a navigation may reach: those from MaxBack days before the
\* first day of the session on, and the MaxBack days before an old day of
\* the picker.
InReach(iso) ==
  \/ DateTime(iso) >= DateTime(Today0) - MaxBack
  \/ \E a \in OldPicks :
       DateTime(a) - MaxBack <= DateTime(iso) /\ DateTime(iso) < DateTime(a)

NoChart == [labels |-> <<>>, values |-> <<>>, yMin |-> 0, yMax |-> 0, step |-> 0]

Booted == program = "part_001"

\* The module's top level before init() runs, for a stored item and an
\* instant drawn from the given sets.
InitWith(items, instants, widths) ==
  /\ today = Today0
  /\ now \in instants
  /\ clientWidth \in widths
  /\ storage \in items
  /\ entries = <<>>
  /\ selectedISO = <<>>
  /\ weightInput = <<>>
  /\ statusText = NoStatus
  /\ dateLabel = <<>>
  /\ chart = NoChart
  /\ startX = 0 /\ startY = 0 /\ distX = 0 /\ distY = 0 /\ startTime = 0
  /\ locked = FALSE /\ lockDir = "null"
  /\ armed = FALSE /\ typedISO = <<>>
  /\ track = 0
  /\ timers = <<>>
  /\ slideIns = 0
  /\ fingers = 0
  /\ saveButton = "idle"
  /\ dateInput = <<>>
  /\ active = FALSE
  /\ trackClass = ""
  /\ idleTimers = 0
  /\ recentList = <<>>
  /\ program = "none"

(* --------------------------- part_001: INPUT -------------------------- *)

\* isFutureISODate that finds no day to be in the future.
FutureCheckOff(iso, day) == FALSE

\* isFutureISODate(iso) when the wall clock's day is `day`.
isFutureISODate(iso, day) == DateTime(iso) > DateTime(day)

\* autoSaveIfValid that returns before saving when it is quiet.
AutoSaveUnlessQuiet(es, stored, iso, value, status, shown, quiet, t) ==
  LET weight == parseWeight(value) IN
  IF weight = <<>> \/ quiet
    THEN [saved |-> FALSE, entries |-> es, storage |-> stored, chart |-> shown,
          status |-> IF ~quiet /\ Trim(value) # <<>> THEN InvalidStatus ELSE status]
    ELSE LET next == sortEntries(Append(RemoveDay(es, iso), Entry(iso, weight[1], t))) IN
         [saved |-> TRUE, entries |-> next, storage |-> Stringify(next),
          chart |-> renderChart(next, iso),
          status |-> SavedStatus(weight[1], iso)]

\* autoSaveIfValid whose upsertEntry does not call saveEntries.
AutoSaveWithoutPersist(es, stored, iso, value, status, shown, quiet, t) ==
  LET weight == parseWeight(value) IN
  IF weight = <<>>
    THEN [saved |-> FALSE, entries |-> es, storage |-> stored, chart |-> shown,
          status |-> IF ~quiet /\ Trim(value) # <<>> THEN InvalidStatus ELSE status]
    ELSE LET next == upsertEntry(es, iso, weight[1], t) IN
         [saved |-> TRUE, entries |-> next, storage |-> stored,
          chart |-> renderChart(next, iso),
          status |-> IF ~quiet THEN SavedStatus(weight[1], iso) ELSE status]

\* autoSaveIfValid({quiet}) at instant t: what it returns (saved) and what
\* it leaves in entries, the stored item, the chart and the status text.
autoSaveIfValid(es, stored, iso, value, status, shown, quiet, t) ==
  LET Upserted(w, next) ==
        [saved |-> TRUE, entries |-> next, storage |-> Stringify(next),
         chart |-> renderChart(next, iso),
         status |-> IF ~quiet THEN SavedStatus(w, iso) ELSE status]
      Outcome(weight) ==
        IF weight = <<>>
          THEN [saved |-> FALSE, entries |-> es, storage |-> stored, chart |-> shown,
                status |-> IF ~quiet /\ Trim(value) # <<>> THEN InvalidStatus
                           ELSE status]
          ELSE Upserted(weight[1], upsertEntry(es, iso, weight[1], t))
  IN Outcome(parseWeight(value))

\* shiftDay without its isFutureISODate return.
ShiftDayUnchecked(iso, delta, day) == shiftISO(iso, delta)

\* shiftDay(delta): the new selectedISO.
shiftDay(iso, delta, day) ==
  LET next == shiftISO(iso, delta) IN
  IF isFutureISODate(next, day) THEN iso ELSE next

\* renderAll(): renderDate, fillWeightForSelectedDate, renderChart
\* (updateTodayColor only toggles a style class, which is not modelled).
RenderAll(es, iso) ==
  /\ dateLabel' = isoToMMDDYY(iso)
  /\ weightInput' = fillWeightForSelectedDate(es, iso)
  /\ chart' = renderChart(es, iso)

Seed(t, instant) ==
  <<Entry(shiftISO(t, -6), 1862, instant), Entry(shiftISO(t, -4), 1853, instant),
    Entry(shiftISO(t, -2), 1848, instant), Entry(shiftISO(t, 0), 1843, instant)>>

\* init(): load, sort, select today, seed an empty store, render.
Boot ==
  /\ program = "none"
  /\ program' = "part_001"
  /\ LET loaded == sortEntries(loadEntries(storage, now)) IN
     /\ selectedISO' = today
     /\ IF Len(loaded) = 0
          THEN /\ entries' = sortEntries(Seed(today, now))
               /\ storage' = Stringify(entries')
          ELSE /\ entries' = loaded
               /\ UNCHANGED storage
     /\ RenderAll(entries', today)
  /\ UNCHANGED <<envVars, statusText, swipeVars, histVars, track, timerVars, fingers, appVars>>

\* The user edits the weight field (no listener in part_001).
Type(text) ==
  /\ Booted
  /\ weightInput' = text
  /\ UNCHANGED <<envVars, storeVars, selectedISO, statusText, dateLabel, chart,
                 swipeVars, histVars, track, timerVars, fingers, program, appVars>>

\* What the blur listener does: autoSaveIfValid({quiet: false}).
BlurEffect ==
  LET Left(r) ==
        /\ entries' = r.entries
        /\ storage' = r.storage
        /\ chart' = r.chart
        /\ statusText' = r.status
  IN Left(autoSaveIfValid(entries, storage, selectedISO, weightInput, statusText,
                          chart, FALSE, now))
  /\ UNCHANGED <<envVars, selectedISO, weightInput, dateLabel,
                 swipeVars, histVars, track, timerVars, fingers, program, appVars>>

\* The weight field loses focus.
Blur == Booted /\ BlurEffect

\* keydown with key "Enter": els.weightInput.blur(), which runs the blur
\* listener.
KeydownEnter == Booted /\ BlurEffect

(* --------------------------- part_001: SWIPE -------------------------- *)

\* touchstart with k new touch points, the first at (x, y).
TouchStart(k, x, y) ==
  /\ Booted
  /\ fingers' = fingers + k
  /\ IF k # 1
       THEN UNCHANGED <<swipeVars, armed>>
       ELSE /\ startX' = x /\ startY' = y
            /\ distX' = 0 /\ distY' = 0
            /\ startTime' = now
            /\ locked' = FALSE /\ lockDir' = "null"
            /\ armed' = TRUE
  /\ UNCHANGED <<envVars, storeVars, viewVars, typedISO, track, timerVars, program, appVars>>

\* The axis lock of touchmove with Math.abs(distX) >= Math.abs(distY).
LockAxisTieHorizontal(wasLocked, dir, dx, dy) ==
  IF wasLocked THEN [locked |-> TRUE, lockDir |-> dir, drag |-> TRUE]
  ELSE IF Abs(dx) < deadZone /\ Abs(dy) < deadZone
    THEN [locked |-> FALSE, lockDir |-> dir, drag |-> FALSE]
  ELSE [locked |-> TRUE, lockDir |-> IF Abs(dx) >= Abs(dy) THEN "h" ELSE "v",
        drag |-> TRUE]

\* The axis lock of touchmove: [locked, lockDir, drag], drag telling
\* whether the handler goes on past the dead-zone return.
lockAxis(wasLocked, dir, dx, dy) ==
  IF wasLocked THEN [locked |-> TRUE, lockDir |-> dir, drag |-> TRUE]
  ELSE IF Abs(dx) < deadZone /\ Abs(dy) < deadZone
    THEN [locked |-> FALSE, lockDir |-> dir, drag |-> FALSE]
  ELSE [locked |-> TRUE, lockDir |-> IF Abs(dx) > Abs(dy) THEN "h" ELSE "v",
        drag |-> TRUE]

\* touchmove with k moved touch points, the first at (x, y).
TouchMove(k, x, y) ==
  /\ Booted
  /\ k <= fingers
  /\ IF k # 1
       THEN UNCHANGED <<swipeVars, armed, track>>
       ELSE LET l == lockAxis(locked, lockDir, x - startX, y - startY) IN
            /\ distX' = x - startX
            /\ distY' = y - startY
            /\ locked' = l.locked
            /\ lockDir' = l.lockDir
            /\ track' = IF l.drag /\ l.lockDir = "h" THEN x - startX ELSE track
            /\ UNCHANGED <<startX, startY, startTime, armed>>
  /\ UNCHANGED <<envVars, storeVars, viewVars, typedISO, timerVars, fingers, program, appVars>>

\* The test of touchend with elapsedTime < allowedTime.
SwipeDirStrictTime(elapsedTime, dx, dy) ==
  IF elapsedTime < allowedTime /\ Abs(dx) >= threshold /\ Abs(dy) <= restraint
    THEN (IF dx < 0 THEN "left" ELSE "right")
    ELSE "none"

\* The test of touchend: "left", "right", or "none" for a snap back.
swipeDir(elapsedTime, dx, dy) ==
  IF elapsedTime <= allowedTime /\ Abs(dx) >= threshold /\ Abs(dy) <= restraint
    THEN (IF dx < 0 THEN "left" ELSE "right")
    ELSE "none"

\* touchsurface.clientWidth || 320, and the offset commitSwipe slides the
\* track to.
Width == IF clientWidth = 0 THEN defaultWidth ELSE clientWidth
SlideOff(dir) == IF dir = "left" THEN -Width ELSE Width

\* touchend with k lifted touch points: commitSwipe(dir) slides the track
\* out and starts the 165 ms timer; otherwise snapBack().
TouchEnd(k) ==
  /\ Booted
  /\ k <= fingers
  /\ fingers' = fingers - k
  /\ LET dir == swipeDir(now - startTime, distX, distY) IN
     /\ dir # "none" => Len(timers) + slideIns < MaxPending
     /\ IF dir # "none"
          THEN /\ track' = SlideOff(dir)
               /\ timers' = Append(timers, dir)
          ELSE /\ track' = 0
               /\ UNCHANGED timers
     /\ armed' = (armed /\ dir = "none")
     /\ UNCHANGED <<envVars, storeVars, viewVars, swipeVars, typedISO, slideIns, program,
                    appVars>>

\* touchcancel: snapBack().
TouchCancel ==
  /\ Booted
  /\ fingers > 0
  /\ fingers' = 0
  /\ track' = 0
  /\ armed' = FALSE
  /\ UNCHANGED <<envVars, storeVars, viewVars, swipeVars, typedISO, timerVars, program,
                 appVars>>

\* The 165 ms callback of commitSwipe(dir): auto-save the day being left,
\* shiftDay, put the track on the opposite side, start the 16 ms timer.
CommitTimer ==
  /\ Booted
  /\ timers # <<>>
  /\ LET Shifted(dir, r, next) ==
           /\ InReach(next)
           /\ entries' = r.entries
           /\ storage' = r.storage
           /\ statusText' = r.status
           /\ selectedISO' = next
           /\ IF next # selectedISO
                THEN RenderAll(r.entries, next)
                ELSE /\ chart' = r.chart
                     /\ UNCHANGED <<weightInput, dateLabel>>
           /\ track' = -SlideOff(dir)
           /\ timers' = Tail(timers)
         Committed(dir) ==
           Shifted(dir,
                   autoSaveIfValid(entries, storage, selectedISO, weightInput,
                                   statusText, chart, TRUE, now),
                   shiftDay(selectedISO, IF dir = "right" THEN -1 ELSE 1, today))
     IN Committed(Head(timers))
  /\ slideIns' = slideIns + 1
  /\ UNCHANGED <<envVars, swipeVars, histVars, fingers, program, appVars>>

\* The 16 ms callback: slide the track back to 0.
SlideInTimer ==
  /\ Booted
  /\ slideIns > 0
  /\ slideIns' = slideIns - 1
  /\ track' = 0
  /\ UNCHANGED <<envVars, storeVars, viewVars, swipeVars, histVars, timers, fingers, program, appVars>>

(* =============================== app.js =============================== *)

\* app.js has its own copies of these functions, with the same bodies.
sortByEntryDateAsc(list) == sortEntries(list)
parseWeightInput(raw) == parseWeight(raw)

\* renderChart() of app.js: one point per entry of the store.
renderEntriesChart(es) ==
  [labels |-> [i \in 1..Len(es) |-> isoToMMDDYY(es[i].entryDate)],
   values |-> [i \in 1..Len(es) |-> es[i].weight]]

\* renderRecentList(): the last 7 entries, most recent first.
renderRecentList(es) ==
  LET n == IF Len(es) < 7 THEN Len(es) ELSE 7 IN
  [i \in 1..n |-> <<isoToMMDDYY(es[Len(es) + 1 - i].entryDate),
                    WeightText(es[Len(es) + 1 - i].weight)>>]

\* renderAll() of app.js: renderDateLabel, renderChart, renderRecentList
\* (updateTodayColor only toggles a style class, which is not modelled).
\* It leaves the weight field alone.
AppRenderAll(es, iso) ==
  /\ dateLabel' = isoToMMDDYY(iso)
  /\ dateInput' = iso
  /\ chart' = renderEntriesChart(es)
  /\ recentList' = renderRecentList(es)

AppSeed(t, instant) ==
  <<Entry(shiftISO(t, -14), 1846, instant), Entry(shiftISO(t, -10), 1839, instant),
    Entry(shiftISO(t, -7), 1832, instant), Entry(shiftISO(t, -3), 1828, instant)>>

AppBooted == program = "app"

\* init() of app.js.
AppBoot ==
  /\ program = "none"
  /\ program' = "app"
  /\ LET loaded == sortByEntryDateAsc(loadEntries(storage, now)) IN
     /\ selectedISO' = today
     /\ IF Len(loaded) = 0
          THEN /\ entries' = sortByEntryDateAsc(AppSeed(today, now))
               /\ storage' = Stringify(entries')
          ELSE /\ entries' = loaded
               /\ UNCHANGED storage
     /\ AppRenderAll(entries', today)
  /\ saveButton' = "idle"
  /\ UNCHANGED <<envVars, weightInput, statusText, swipeVars, histVars, track, timerVars, fingers,
                 active, trackClass, idleTimers>>

\* The "input" listener: the user edits the weight field.
AppInput(text) ==
  /\ AppBooted
  /\ weightInput' = text
  /\ saveButton' = "idle"
  /\ statusText' = NoStatus
  /\ typedISO' = IF parseWeightInput(text) = <<>> THEN <<>> ELSE selectedISO
  /\ UNCHANGED <<envVars, storeVars, selectedISO, dateLabel, chart, swipeVars, armed, track,
                 timerVars, fingers, program, dateInput, active, trackClass,
                 idleTimers, recentList>>

\* onSave().
onSave ==
  LET weight == parseWeightInput(weightInput) IN
  IF selectedISO = <<>> \/ isFutureISODate(selectedISO, today) \/ weight = <<>>
    THEN /\ saveButton' = "error"
         /\ statusText' = IF selectedISO = <<>> THEN MissingStatus
                          ELSE IF isFutureISODate(selectedISO, today) THEN FutureStatus
                          ELSE InvalidStatus
         /\ UNCHANGED <<storeVars, dateLabel, dateInput, chart, recentList, idleTimers>>
    ELSE /\ Len(timers) + idleTimers < MaxPending
         /\ entries' = upsertEntry(entries, selectedISO, weight[1], now)
         /\ storage' = Stringify(entries')
         /\ AppRenderAll(entries', selectedISO)
         /\ saveButton' = "saved"
         /\ statusText' = SavedStatus(weight[1], selectedISO)
         /\ idleTimers' = idleTimers + 1

\* A click on the Save button.
SaveClick ==
  /\ AppBooted
  /\ onSave
  /\ UNCHANGED <<envVars, selectedISO, weightInput, swipeVars, histVars, track, timerVars,
                 fingers, program, active, trackClass>>

\* keydown with key "Enter" in the weight field.
AppKeydownEnter ==
  /\ AppBooted
  /\ onSave
  /\ UNCHANGED <<envVars, selectedISO, weightInput, swipeVars, histVars, track, timerVars,
                 fingers, program, active, trackClass>>

\* A 900 ms timer: setSaveButtonState("idle").
IdleTimer ==
  /\ AppBooted
  /\ idleTimers > 0
  /\ idleTimers' = idleTimers - 1
  /\ saveButton' = "idle"
  /\ UNCHANGED <<envVars, storeVars, viewVars, swipeVars, histVars, track, timerVars, fingers,
                 program, dateInput, active, trackClass, recentList>>

\* The "change" listener without its isFutureISODate test.
DateChangeUnchecked(v) ==
  /\ AppBooted
  /\ IF v = <<>>
       THEN /\ Len(timers) + idleTimers < MaxPending
            /\ dateInput' = selectedISO
            /\ dateLabel' = isoToMMDDYY(selectedISO)
            /\ saveButton' = "error"
            /\ statusText' = FutureStatus
            /\ idleTimers' = idleTimers + 1
            /\ UNCHANGED <<selectedISO, chart, recentList>>
       ELSE /\ selectedISO' = v
            /\ AppRenderAll(entries, v)
            /\ saveButton' = "idle"
            /\ statusText' = NoStatus
            /\ UNCHANGED idleTimers
  /\ UNCHANGED <<envVars, storeVars, weightInput, swipeVars, histVars, track, timerVars, fingers,
                 program, active, trackClass>>

\* The "change" listener of the date picker, whose value is now v.
DateChange(v) ==
  /\ AppBooted
  /\ IF v = <<>> \/ isFutureISODate(v, today)
       THEN /\ Len(timers) + idleTimers < MaxPending
            /\ dateInput' = selectedISO
            /\ dateLabel' = isoToMMDDYY(selectedISO)
            /\ saveButton' = "error"
            /\ statusText' = FutureStatus
            /\ idleTimers' = idleTimers + 1
            /\ UNCHANGED <<selectedISO, chart, recentList>>
       ELSE /\ selectedISO' = v
            /\ AppRenderAll(entries, v)
            /\ saveButton' = "idle"
            /\ statusText' = NoStatus
            /\ UNCHANGED idleTimers
  /\ UNCHANGED <<envVars, storeVars, weightInput, swipeVars, histVars, track, timerVars, fingers,
                 program, active, trackClass>>

\* touchstart of app.js with k new touch points, the first touch at (x, y).
AppTouchStart(k, x, y) ==
  /\ AppBooted
  /\ fingers' = fingers + k
  /\ IF fingers' # 1
       THEN UNCHANGED <<active, startX, startY>>
       ELSE /\ active' = TRUE
            /\ startX' = x /\ startY' = y
  /\ UNCHANGED <<envVars, storeVars, viewVars, distX, distY, startTime, locked, lockDir,
                 histVars,
                 track, timerVars, program, saveButton, dateInput, trackClass,
                 idleTimers, recentList>>

\* The class touchmove leaves on the track for a drag of dx.
hintClass(dx) ==
  IF dx > hintOffset THEN "slide-right"
  ELSE IF dx < -hintOffset THEN "slide-left"
  ELSE ""

\* touchmove of app.js with k moved touch points, the first touch at (x, y).
AppTouchMove(k, x, y) ==
  /\ AppBooted
  /\ k <= fingers
  /\ trackClass' = IF ~active \/ fingers # 1 \/ Abs(y - startY) > appRestraint
                     THEN trackClass
                     ELSE hintClass(x - startX)
  /\ UNCHANGED <<envVars, storeVars, viewVars, swipeVars, histVars, track, timerVars, fingers,
                 program, saveButton, dateInput, active, idleTimers, recentList>>

\* The test of touchend of app.js: "left", "right", or "none".
appSwipeDir(dx, dy) ==
  IF Abs(dy) > appRestraint \/ Abs(dx) < appThreshold THEN "none"
  ELSE IF dx > 0 THEN "right" ELSE "left"

\* touchend of app.js with k lifted touch points, the first lifted at
\* (x, y): animateSwipe(dir, ...) adds the class and starts the 140 ms timer.
AppTouchEnd(k, x, y) ==
  /\ AppBooted
  /\ k <= fingers
  /\ fingers' = fingers - k
  /\ IF ~active
       THEN UNCHANGED <<active, trackClass, timers>>
       ELSE LET dir == appSwipeDir(x - startX, y - startY) IN
            /\ dir # "none" => Len(timers) + idleTimers < MaxPending
            /\ active' = FALSE
            /\ trackClass' = IF dir = "right" THEN "slide-right"
                             ELSE IF dir = "left" THEN "slide-left"
                             ELSE ""
            /\ timers' = IF dir = "none" THEN timers ELSE Append(timers, dir)
  /\ UNCHANGED <<envVars, storeVars, viewVars, swipeVars, histVars, track, slideIns, program,
                 saveButton, dateInput, idleTimers, recentList>>

\* touchcancel: app.js has no listener for it.
AppTouchCancel ==
  /\ AppBooted
  /\ fingers > 0
  /\ fingers' = 0
  /\ UNCHANGED <<envVars, storeVars, viewVars, swipeVars, histVars, track, timerVars, program,
                 appVars>>

\* shiftSelectedDay(deltaDays): the new selectedISO.
shiftSelectedDay(iso, deltaDays, day) ==
  LET next == shiftISO(iso, deltaDays) IN
  IF isFutureISODate(next, day) THEN iso ELSE next

\* The 140 ms callback of animateSwipe(dir, ...): remove the class, then
\* shiftSelectedDay(-1) for "right", shiftSelectedDay(+1) for "left".
AnimateTimer ==
  /\ AppBooted
  /\ timers # <<>>
  /\ LET dir == Head(timers)
         cls == IF dir = "right" THEN "slide-right" ELSE "slide-left"
         next == shiftSelectedDay(selectedISO, IF dir = "right" THEN -1 ELSE 1, today)
     IN /\ InReach(next)
        /\ trackClass' = IF trackClass = cls THEN "" ELSE trackClass
        /\ timers' = Tail(timers)
        /\ selectedISO' = next
        /\ IF isFutureISODate(shiftISO(selectedISO, IF dir = "right" THEN -1 ELSE 1), today)
             THEN UNCHANGED <<dateLabel, dateInput, chart, recentList, saveButton,
                              statusText>>
             ELSE /\ AppRenderAll(entries, next)
                  /\ saveButton' = "idle"
                  /\ statusText' = NoStatus
  /\ UNCHANGED <<envVars, storeVars, weightInput, swipeVars, histVars, track, slideIns, fingers,
                 program, active, idleTimers>>

(* --------------------------- environment ------------------------------ *)

\* Midnight passes while the page is open.
AdvanceDay ==
  /\ program # "none"
  /\ DateTime(today) < DateTime(LastDay)
  /\ today' = shiftISO(today, 1)
  /\ UNCHANGED <<now, clientWidth, storeVars, viewVars, swipeVars, histVars, track, timerVars, fingers, program, appVars>>

\* The clock reaches the next of the given instants.
Tick(instants) ==
  /\ \E t \in instants : t > now
  /\ now' = CHOOSE t \in instants : t > now /\ \A u \in instants : u > now => t <= u
  /\ UNCHANGED <<today, clientWidth, storeVars, viewVars, swipeVars, histVars, track, timerVars, fingers, program, appVars>>

(* ---------------------------- the session ----------------------------- *)

\* The stored items a session may start from: none, text that is not JSON,
\* JSON that is not an array, and two records of the same day.
SessionItems ==
  { NoItem, BadJson, NonArray,
    JArray(<<JObj(JStr(shiftISO(Today0, -1)), JNum(700), JNum(5)),
             JObj(JStr(shiftISO(Today0, -1)), JNum(710), JUndef)>>) }

SessionInstants == {100000}

SessionTexts == { <<>>, <<"7", "2", ",", "5">>, <<"x">> }

\* Touch positions of the session: a start point and two horizontal moves.
SessionStart == {<<100, 100>>}
SessionMoves == {<<20, 100>>, <<180, 100>>}

\* The values the date picker can hand to its change listener: empty, and
\* the days from yesterday to the day after the last day of the session.
PickerValues == {<<>>} \cup {shiftISO(Today0, i) : i \in -1..2}

\* The width of the swipe stage in the session.
SessionWidths == {375}

Init == InitWith(SessionItems, SessionInstants, SessionWidths)

Next ==
  \/ Boot
  \/ \E text \in SessionTexts : Type(text)
  \/ Blur
  \/ KeydownEnter
  \/ \E p \in SessionStart : fingers = 0 /\ TouchStart(1, p[1], p[2])
  \/ \E p \in SessionMoves : TouchMove(1, p[1], p[2])
  \/ TouchEnd(1)
  \/ TouchCancel
  \/ CommitTimer
  \/ SlideInTimer
  \/ AppBoot
  \/ \E text \in SessionTexts : AppInput(text)
  \/ SaveClick
  \/ AppKeydownEnter
  \/ IdleTimer
  \/ \E v \in PickerValues : DateChange(v)
  \/ \E p \in SessionStart : fingers = 0 /\ AppTouchStart(1, p[1], p[2])
  \/ \E p \in SessionMoves : AppTouchMove(1, p[1], p[2])
  \/ \E p \in SessionMoves : AppTouchEnd(1, p[1], p[2])
  \/ AppTouchCancel
  \/ AnimateTimer
  \/ AdvanceDay

Spec == Init /\ [][Next]_vars

(* ------------------------ gestures (part_001) ------------------------- *)

\* A session in which the user only swipes: the store holds one old entry,
\* so the days in reach have nothing to auto-save, and the clock moves.
GestureItems == { JArray(<<JObj(JStr(shiftISO(Today0, -4)), JNum(700), JNum(5))>>) }

GestureInstants == {100000, 100200, 100450, 100600}

\* Touch positions around the start point (100, 100): dx of -80, -70, -69,
\* -5, 10 and 70, dy of 5, 10, 90 and 91.
GestureStart == {<<100, 100>>}
GestureXs == {20, 30, 31, 95, 110, 170}
GestureYs == {105, 110, 190, 191}
GestureTouches == {1, 2}

\* The widths of the swipe stage: none (the 320 px fallback) and 375 px.
GestureWidths == {0, 375}

InitGesture == InitWith(GestureItems, {100000}, GestureWidths)

NextGesture ==
  \/ Boot
  \/ \E k \in GestureTouches, p \in GestureStart :
       fingers + k \in GestureTouches /\ TouchStart(k, p[1], p[2])
  \/ \E k \in GestureTouches, x \in GestureXs, y \in GestureYs : TouchMove(k, x, y)
  \/ \E k \in GestureTouches : TouchEnd(k)
  \/ TouchCancel
  \/ CommitTimer
  \/ SlideInTimer
  \/ Tick(GestureInstants)

SpecGesture == InitGesture /\ [][NextGesture]_vars

(* ------------------------- the chart alone ---------------------------- *)

\* The weights a chart store holds: 0 stands for no entry on that day.
ChartWeights == {0, 700, 705, 725}

\* The 7 days of the window that ends on Today0, and the day before it.
ChartDays == [i \in 1..8 |-> shiftISO(Today0, i - 8)]

RECURSIVE StoreOf(_, _)
StoreOf(f, n) ==
  IF n = 0 THEN <<>>
  ELSE IF f[n] = 0 THEN StoreOf(f, n - 1)
  ELSE Append(StoreOf(f, n - 1), Entry(ChartDays[n], f[n], 5))

\* Sorted stores over those days, two that hold a day twice, three whose
\* values are 3.0, 5.0 and 6.0 apart, and two whose values are 5 and 11
\* units apart as decimals but less than that as doubles.
ChartStores ==
  { StoreOf(f, 8) : f \in [1..8 -> ChartWeights] }
    \cup { <<Entry(ChartDays[3], 700, 5), Entry(ChartDays[5], 730, 5)>>,
           <<Entry(ChartDays[3], 750, 5), Entry(ChartDays[5], 700, 5)>>,
           <<Entry(ChartDays[2], 700, 5), Entry(ChartDays[8], 760, 5)>>,
           <<Entry(ChartDays[5], 1232, 5), Entry(ChartDays[7], 1282, 5)>>,
           <<Entry(ChartDays[6], 1172, 5), Entry(ChartDays[7], 1282, 5)>> }
    \cup { <<Entry(ChartDays[4], 700, 5), Entry(ChartDays[4], 725, 5)>>,
           <<Entry(ChartDays[1], 725, 5), Entry(ChartDays[6], 705, 5),
             Entry(ChartDays[6], 700, 5)>> }

InitChart ==
  /\ today = Today0
  /\ now = 100000
  /\ clientWidth = 0
  /\ storage = NoItem
  /\ entries \in ChartStores
  /\ selectedISO = Today0
  /\ weightInput = <<>>
  /\ statusText = NoStatus
  /\ dateLabel = <<>>
  /\ chart = NoChart
  /\ startX = 0 /\ startY = 0 /\ distX = 0 /\ distY = 0 /\ startTime = 0
  /\ locked = FALSE /\ lockDir = "null"
  /\ armed = FALSE /\ typedISO = <<>>
  /\ track = 0
  /\ timers = <<>>
  /\ slideIns = 0
  /\ fingers = 0
  /\ saveButton = "idle"
  /\ dateInput = <<>>
  /\ active = FALSE
  /\ trackClass = ""
  /\ idleTimers = 0
  /\ recentList = <<>>
  /\ program = "chart"

\* renderChart() on the store and the selected day.
RenderChart ==
  /\ program = "chart"
  /\ chart = NoChart
  /\ chart' = renderChart(entries, selectedISO)
  /\ UNCHANGED <<envVars, storeVars, selectedISO, weightInput, statusText, dateLabel,
                 swipeVars, histVars, track, timerVars, fingers, program, appVars>>

SpecChart == InitChart /\ [][RenderChart]_vars

(* ------------------------- parseWeight alone -------------------------- *)

\* The texts a parse starts from: every text of at most MaxText characters
\* over ParseChars, and some longer ones.  (On texts with up to 4 fraction
\* digits the exact decimal arithmetic of parseWeight above gives what the
\* doubles of Number and Math.round give.)
MaxText == 4
ParseChars == {"0", "1", "4", "5", ".", ",", " ", "-", "e", "\t"}
ParseTexts ==
  UNION { [1..n -> ParseChars] : n \in 0..MaxText }
    \cup { <<"1", "8", "0">>, <<"1", "8", "0", ",", "2">>, <<"1", "4", "0", "1">>,
           <<"1", "7", "9", ".", "9", "5">>, <<"1", "4", "0", "0", ".", "0", "4">>,
           <<" ", "7", "2", ",", "5", "5", " ">>, <<"1", "3", "9", "9", ".", "9", "5">>,
           <<"0", "x", "1", "0">>, <<"0", "b", "1", "1">>, <<"+", "5">>, <<"1", "E", "2">>,
           <<"\n", "7", "2", ".", "5", "\r", "\n">>,
           <<"I", "n", "f", "i", "n", "i", "t", "y">>, <<"1", "e", "4", "0", "0">>,
           <<"1", "e", "-", "4", "0", "0">> }

\* The page of part_001 after init() on an empty localStorage, with a text
\* typed into the weight field.
InitParse ==
  /\ today = Today0
  /\ now = 100000
  /\ clientWidth = 0
  /\ entries = sortEntries(Seed(Today0, 100000))
  /\ storage = Stringify(entries)
  /\ selectedISO = Today0
  /\ weightInput \in ParseTexts
  /\ statusText = NoStatus
  /\ dateLabel = isoToMMDDYY(Today0)
  /\ chart = renderChart(entries, Today0)
  /\ startX = 0 /\ startY = 0 /\ distX = 0 /\ distY = 0 /\ startTime = 0
  /\ locked = FALSE /\ lockDir = "null"
  /\ armed = FALSE /\ typedISO = <<>>
  /\ track = 0
  /\ timers = <<>>
  /\ slideIns = 0
  /\ fingers = 0
  /\ saveButton = "idle"
  /\ dateInput = <<>>
  /\ active = FALSE
  /\ trackClass = ""
  /\ idleTimers = 0
  /\ recentList = <<>>
  /\ program = "part_001"

NextParse ==
  \/ Blur
  \/ KeydownEnter

SpecParse == InitParse /\ [][NextParse]_vars

(* ------------------------ the picker of app.js ------------------------ *)

\* A session of app.js that starts from an empty repository, in which the
\* date picker also hands over days of years below 1000.
WidePickerValues ==
  {<<>>, shiftISO(Today0, -1), shiftISO(Today0, 1)} \cup OldPicks

PickerTexts == { <<>>, <<"7", "2", ",", "5">> }

InitPicker == InitWith({NoItem}, SessionInstants, SessionWidths)

NextPicker ==
  \/ AppBoot
  \/ \E text \in PickerTexts : AppInput(text)
  \/ SaveClick
  \/ AppKeydownEnter
  \/ IdleTimer
  \/ \E v \in WidePickerValues : DateChange(v)
  \/ \E p \in SessionStart : fingers = 0 /\ AppTouchStart(1, p[1], p[2])
  \/ \E p \in SessionMoves : AppTouchMove(1, p[1], p[2])
  \/ \E p \in SessionMoves : AppTouchEnd(1, p[1], p[2])
  \/ AppTouchCancel
  \/ AnimateTimer

SpecPicker == InitPicker /\ [][NextPicker]_vars

(* --------------------------- loading alone ---------------------------- *)

\* The records a stored array may hold: null, and objects whose entryDate
\* is a day, the empty string, a number or missing, whose weight is a
\* number, a string or missing, and whose createdAt is a number, a string
\* or missing.
MaxItems == 2
LoadDates == {JStr(shiftISO(Today0, -1)), JStr(shiftISO(Today0, -2)), JStr(<<>>),
              JNum(20240301), JUndef}
LoadWeights == {JNum(700), JStr(<<"7", "0">>), JUndef}
LoadStamps == {JNum(5), JUndef}
LoadRecords ==
  {JNull, JObj(JStr(shiftISO(Today0, -1)), JNum(700), JStr(<<"5">>))}
    \cup {JObj(day, w, c) : day \in LoadDates, w \in LoadWeights, c \in LoadStamps}
LoadItems == {JArray(items) : items \in UNION {[1..n -> LoadRecords] : n \in 0..MaxItems}}

InitLoad == InitWith(LoadItems, {100000}, {0})

SpecLoad == InitLoad /\ [][Boot]_vars

(* ============================== claims ================================ *)

\* The number of the day a date text names.
DayOf(iso) == DayCount(iso[1], iso[2], iso[3])

UniqueDays(es) ==
  \A i, j \in 1..Len(es) : es[i].entryDate = es[j].entryDate => i = j

\* A step that runs the 165 ms callback of commitSwipe: the only step that
\* takes a timer off the queue.
CommitStep == program = "part_001" /\ timers # <<>> /\ timers' = Tail(timers)

\* A committed NavigateNext whose candidate day is in the future.
RejectedNextStep ==
  /\ CommitStep
  /\ Head(timers) = "left"
  /\ isFutureISODate(shiftISO(selectedISO, 1), today)

\* C1: in every reachable state the entry store holds at most one entry per
\* day, whatever the stored snapshot held.
C1_OneEntryPerDay == UniqueDays(entries)

\* C2: a step that upserts (d, w) into a store with unique days leaves
\* exactly one entry for d, of weight w, leaves the entry of every other day
\* as it was, and leaves the size unchanged when d was present and one
\* larger otherwise.
C2_UpsertEffect ==
  [][ (program = "part_001" /\ entries' # entries /\ UniqueDays(entries)) =>
        LET d == selectedISO
            w == parseWeight(weightInput)
            others == ({entries[i].entryDate : i \in 1..Len(entries)}
                         \cup {entries'[i].entryDate : i \in 1..Len(entries')}) \ {d}
        IN /\ w # <<>>
           /\ Cardinality({i \in 1..Len(entries') : entries'[i].entryDate = d}) = 1
           /\ findEntry(entries', d)[1].weight = w[1]
           /\ \A o \in others : findEntry(entries', o) = findEntry(entries, o)
           /\ Len(entries') = IF findEntry(entries, d) # <<>> THEN Len(entries)
                                                               ELSE Len(entries) + 1
    ]_vars

\* C2 witness: the seeded store after the entry of the first day was
\* overwritten (size still 4) and after a new day was added (size 5).
C2_Overwritten ==
  /\ program = "part_001"
  /\ UniqueDays(entries)
  /\ Len(entries) = 5
  /\ findEntry(entries, Today0) # <<>> /\ findEntry(entries, Today0)[1].weight = 725
  /\ findEntry(entries, shiftISO(Today0, -1)) # <<>>

\* C3: selectedISO is never strictly after the wall clock's day.
C3_NeverFuture == selectedISO # <<>> => DayOf(selectedISO) <= DayOf(today)

\* C3 witness: after midnight passed, a swipe to the next day was accepted.
C3_NextAfterMidnight ==
  program = "part_001" /\ today = LastDay /\ selectedISO = LastDay /\ slideIns > 0

\* C4: a rejected NavigateNext leaves selectedISO unchanged and raises a
\* user-visible "blocked" signal.
C4_BlockedSignal ==
  [][ RejectedNextStep => (selectedISO' = selectedISO /\ statusText' = FutureStatus) ]_vars

\* C5: the callback of a committed swipe first parses the staged text and,
\* if valid, upserts it for the day being left; an empty or invalid text
\* saves nothing and raises no error; the navigation happens either way.
C5_AutoSaveOnNavigate ==
  [][ CommitStep =>
        LET d == selectedISO
            w == parseWeight(weightInput)
            candidate == shiftISO(d, IF Head(timers) = "right" THEN -1 ELSE 1)
        IN /\ selectedISO' = IF isFutureISODate(candidate, today) THEN d ELSE candidate
           /\ selectedISO' # d =>
                IF w # <<>>
                  THEN /\ findEntry(entries', d) # <<>>
                       /\ findEntry(entries', d)[1].weight = w[1]
                       /\ storage' = Stringify(entries')
                  ELSE /\ entries' = entries
                       /\ storage' = storage
                       /\ statusText' = statusText
    ]_vars

\* C5 witness: "72,5" was staged on the first day and a swipe right left
\* that day: the callback has run (its slide-in is pending) and the day
\* left holds 72.5.
C5_SavedOnLeaving ==
  /\ program = "part_001"
  /\ slideIns > 0 /\ track = -Width
  /\ selectedISO = shiftISO(Today0, -1)
  /\ findEntry(entries, Today0) # <<>> /\ findEntry(entries, Today0)[1].weight = 725
  /\ storage = Stringify(entries)

\* C6: a rejected NavigateNext changes nothing: selectedISO, the store and
\* the stored snapshot are as before, whatever text is staged.
C6_RejectedChangesNothing ==
  [][ RejectedNextStep =>
        (selectedISO' = selectedISO /\ entries' = entries /\ storage' = storage) ]_vars

\* C7: after init and after every change of selectedISO the staged input is
\* the text of the stored weight of the new day, or empty when that day has
\* no entry.
C7_Rehydrated ==
  [][ (program' = "part_001" /\ selectedISO' # selectedISO) =>
        weightInput' = IF findEntry(entries', selectedISO') = <<>> THEN <<>>
                       ELSE WeightText(findEntry(entries', selectedISO')[1].weight)
    ]_vars

\* C7 witness: the user typed "x" on the day before, swiped back to the
\* seeded first day, and the input shows that day's 184.3.
C7_BackOnSeededDay ==
  /\ program = "part_001"
  /\ slideIns > 0 /\ track = Width
  /\ selectedISO = Today0
  /\ findEntry(entries, shiftISO(Today0, -1)) = <<>>
  /\ weightInput = <<"1", "8", "4", ".", "3">>

\* A step that runs the touchend listener of part_001.
TouchEndStep == \E k \in GestureTouches : TouchEnd(k)

\* C8: the chart holds exactly 7 points, for the days selectedISO-6 ..
\* selectedISO in order; a point is the weight of an entry of its day, or
\* else that of the nearest earlier day of the window that has an entry, or
\* else absent; nothing dated before the window is carried into it.
C8_WeekSeries ==
  chart # NoChart =>
    LET day == [i \in 1..7 |-> shiftISO(selectedISO, i - 7)]
        has(i) == \E k \in 1..Len(entries) : entries[k].entryDate = day[i]
        weights(i) == {entries[k].weight :
                         k \in {n \in 1..Len(entries) : entries[n].entryDate = day[i]}}
    IN /\ Len(chart.values) = 7
       /\ \A i \in 1..7 :
            /\ DayOf(day[i]) = DayOf(selectedISO) - (7 - i)
            /\ chart.labels[i] = day[i][3]
            /\ IF has(i) THEN /\ chart.values[i] # <<>>
                              /\ chart.values[i][1] \in weights(i)
               ELSE IF \E j \in 1..(i - 1) : has(j)
                 THEN LET j == CHOOSE n \in 1..(i - 1) :
                                 has(n) /\ \A m \in (n + 1)..(i - 1) : ~has(m)
                      IN chart.values[i] = chart.values[j]
               ELSE chart.values[i] = <<>>

\* C8 witness: one entry, on the 3rd day of the window (and nothing else in
\* reach): absent, absent, then its weight five times.
C8_ThirdDayOnly ==
  /\ program = "chart"
  /\ Len(entries) = 1
  /\ entries[1].entryDate = shiftISO(selectedISO, -4)
  /\ chart.values = <<<<>>, <<>>, <<725>>, <<725>>, <<725>>, <<725>>, <<725>>>>

\* The points of the chart that hold a value, in tenths.
Plotted == {chart.values[i][1] : i \in {n \in 1..Len(chart.values) : chart.values[n] # <<>>}}

\* C9: every plotted value lies in the upper third of the axis,
\* yMin + (2/3)(yMax - yMin) <= v <= yMax (axis bounds are in hundredths).
C9_UpperThird ==
  chart # NoChart =>
    \A v \in Plotted :
      /\ 3 * (10 * v) >= 3 * chart.yMin + 2 * (chart.yMax - chart.yMin)
      /\ 10 * v <= chart.yMax

\* C10: the touchend listener commits a navigation iff elapsed <= 450 ms,
\* |dx| >= 70 and |dy| <= 90: to the previous day ("right") for dx > 0, to
\* the next ("left") for dx < 0; otherwise it snaps back and selectedISO is
\* unchanged.  The committed callback moves by -1 for "right", +1 for "left".
C10_CommitRule ==
  /\ [][ TouchEndStep =>
           IF now - startTime <= 450 /\ Abs(distX) >= 70 /\ Abs(distY) <= 90
             THEN /\ timers' = Append(timers, IF distX > 0 THEN "right" ELSE "left")
                  /\ selectedISO' = selectedISO
             ELSE /\ timers' = timers
                  /\ track' = 0
                  /\ selectedISO' = selectedISO
      ]_vars
  /\ [][ CommitStep =>
           selectedISO' \in {selectedISO,
                             shiftISO(selectedISO, IF Head(timers) = "right" THEN -1 ELSE 1)}
      ]_vars

\* C10 witness: dx = -80, dy = 5, 200 ms: the swipe to the next day is
\* committed.
C10_FastSwipeLeft ==
  /\ program = "part_001" /\ fingers = 0
  /\ distX = -80 /\ distY = 5 /\ now - startTime = 200
  /\ timers = <<"left">>
  /\ track = -Width

\* C11: a touchcancel puts the gesture session of part_001 back in its
\* initial form: no axis lock, dx = dy = 0.
C11_CancelResets ==
  [][ TouchCancel =>
        (locked' = FALSE /\ lockDir' = "null" /\ distX' = 0 /\ distY' = 0) ]_vars

\* C12: parseWeight returns null or a Decimal1, a number of tenths w with
\* 0 < w <= 1400, so every weight a save or auto-save writes is one.
C12_SavedDecimal1 ==
  \A i \in 1..Len(entries) : 0 < entries[i].weight /\ entries[i].weight <= 10 * 1400

\* The number a text denotes once trimmed, with its first comma read as the
\* decimal point: the finite number m / 10^k, an infinity, or NaN when it
\* is not a number (the empty text is none).
Typed(text) ==
  LET t == ReplaceFirstComma(Trim(text)) IN
  IF t = <<>> THEN NaN ELSE ToNumber(t)

\* m / 10^k > 1400, for m > 0.
Exceeds1400(m, k) ==
  IF k <= -4 THEN TRUE
  ELSE IF k >= 7 THEN FALSE
  ELSE m * Pow10(IF k < 0 THEN -k ELSE 0) > 1400 * Pow10(IF k > 0 THEN k ELSE 0)

\* w is 10 * m / 10^k rounded to an integer, a tie going up, for m > 0.
IsRoundedTenths(w, m, k) ==
  IF k <= 0 THEN w = 10 * m * Pow10(-k)
  ELSE IF k >= 11 THEN w = 0
  ELSE LET p == Pow10(k - 1) IN
       /\ 2 * (p * w - m) <= p
       /\ 2 * (p * w - m) > -p

\* The weight of today's entry, in tenths.
TodayWeight(es) == findEntry(es, Today0)[1].weight

\* C13: a text that is not a number, is <= 0 or is > 1400 is rejected
\* (nothing is saved); any other is saved as its value rounded to one
\* decimal place, a tie going away from zero: 180 gives 180.0, 180,2 gives
\* 180.2, 0 and 1401 are invalid, 179.95 gives 180.0.
C13_RoundHalfAway ==
  [][ (Blur \/ KeydownEnter) =>
        LET n == Typed(weightInput) IN
           /\ IF ~n.ok \/ ~n.fin \/ n.m <= 0 \/ Exceeds1400(n.m, n.k)
                THEN entries' = entries /\ statusText' \in {NoStatus, InvalidStatus}
                ELSE /\ statusText' = SavedStatus(TodayWeight(entries'), Today0)
                     /\ IsRoundedTenths(TodayWeight(entries'), n.m, n.k)
           /\ weightInput = <<"1", "8", "0">> => TodayWeight(entries') = 1800
           /\ weightInput = <<"1", "8", "0", ",", "2">> => TodayWeight(entries') = 1802
           /\ weightInput = <<"1", "7", "9", ".", "9", "5">> => TodayWeight(entries') = 1800
           /\ weightInput \in {<<"0">>, <<"1", "4", "0", "1">>} => entries' = entries
    ]_vars

\* C13 witness: "179.95" was typed and the field left: today holds 180.0.
C13_TieSaved ==
  /\ program = "part_001"
  /\ weightInput = <<"1", "7", "9", ".", "9", "5">>
  /\ statusText = SavedStatus(1800, Today0)
  /\ TodayWeight(entries) = 1800

\* C14: when the stored snapshot is missing, unparseable or not an array,
\* init leaves the entry store empty, and the chart of part_001 holds 7
\* absent points.
C14_EmptyStart ==
  [][ (program = "none" /\ program' # "none" /\ storage.kind # "array") =>
        /\ entries' = <<>>
        /\ program' = "part_001" => chart'.values = [i \in 1..7 |-> <<>>]
    ]_vars

\* What the 165 ms callback of commitSwipe(dir) would leave in the store and
\* in selectedISO if it ran on these values.
CommitOutcome(es, stored, iso, text, dir, day, t) ==
  <<autoSaveIfValid(es, stored, iso, text, NoStatus, NoChart, TRUE, t).entries,
    shiftDay(iso, IF dir = "right" THEN -1 ELSE 1, day)>>

\* C15: deferring the auto-save and the navigation of a committed swipe to
\* the timer callback changes nothing: whatever event runs while the
\* callback is pending, the callback still leaves the store and selectedISO
\* it would have left had it run at the end of the gesture.
C15_DeferralChangesNothing ==
  [][ (program = "part_001" /\ timers # <<>> /\ timers' = timers) =>
        CommitOutcome(entries', storage', selectedISO', weightInput', Head(timers),
                      today', now')
          = CommitOutcome(entries, storage, selectedISO, weightInput, Head(timers),
                          today, now)
    ]_vars

\* C16: while more than one touch point is down (before or after the
\* event), a touch event of part_001 neither changes the gesture session
\* nor commits a navigation.
C16_MultiTouchIgnored ==
  [][ (program = "part_001" /\ (fingers > 1 \/ fingers' > 1)) =>
        (UNCHANGED swipeVars /\ timers' = timers) ]_vars

\* A step that runs the touchmove listener of part_001 on one moved touch.
TouchMoveStep == \E x \in GestureXs, y \in GestureYs : TouchMove(1, x, y)

\* C17: in a touchmove the axis stays unlocked, and no offset is reported,
\* while |dx| < 10 and |dy| < 10; the first move outside this dead-zone
\* locks it, to horizontal iff |dx| > |dy|, else to vertical; a lock is kept
\* by every later move, and only the next touchstart clears it; the track
\* is set to dx exactly when the axis is horizontal after the move.
C17_AxisLock ==
  /\ [][ TouchMoveStep =>
           /\ IF lockDir # "null" THEN lockDir' = lockDir
              ELSE IF Abs(distX') < 10 /\ Abs(distY') < 10 THEN lockDir' = "null"
              ELSE lockDir' = (IF Abs(distX') > Abs(distY') THEN "h" ELSE "v")
           /\ track' = IF lockDir' = "h" THEN distX' ELSE track
           /\ locked' = (lockDir' # "null")
      ]_vars
  /\ [][ (lockDir # "null" /\ lockDir' # lockDir) =>
           (lockDir' = "null" /\ fingers' = fingers + 1 /\ distX' = 0 /\ distY' = 0)
      ]_vars

\* C17 witness: the axis locked to vertical at dx = 10, dy = 10, and a later
\* move to dx = -80, dy = 5 left it vertical, the track where it was.
C17_StaysVertical ==
  /\ program = "part_001" /\ fingers = 1
  /\ lockDir = "v" /\ locked
  /\ distX = -80 /\ distY = 5
  /\ track = 0

\* The records of a stored array that hold a non-empty day string and a
\* numeric weight, as entries; t is the load instant.
RECURSIVE ValidRecords(_, _)
ValidRecords(items, t) ==
  IF items = <<>> THEN <<>>
  ELSE LET e == Head(items)
           rest == ValidRecords(Tail(items), t)
       IN IF e.truthy /\ e.entryDate.t = "string" /\ e.entryDate.v # <<>>
               /\ e.weight.t = "number"
            THEN <<Entry(e.entryDate.v, e.weight.v[1],
                         IF e.createdAt.t = "number" THEN e.createdAt.v[1] ELSE t)>> \o rest
            ELSE rest

\* C18: after init every entry of the store has a non-empty day; the
\* entries are the records of the snapshot that have a valid day and a
\* numeric weight, each kept, every other dropped, with createdAt set to
\* the load instant where the record has none that is a number.
C18_ValidAfterLoad ==
  [][ (program = "none" /\ program' = "part_001" /\ storage.kind = "array") =>
        /\ \A i \in 1..Len(entries') : entries'[i].entryDate # <<>>
        /\ ValidRecords(storage.items, now) # <<>> =>
             entries' = sortEntries(ValidRecords(storage.items, now))
    ]_vars

\* C19: with dataMin and dataMax the least and greatest plotted value (0
\* and 1 for an empty window) and range = max(dataMax - dataMin, 1), the
\* axis has yMax = dataMax + 0.2 * range, yMin = yMax - 3.0 * range and
\* step = max(1, round(range / 2)); so yMax - yMin = 3 * range >= 3 and
\* yMin < dataMin <= dataMax < yMax; the empty window gives 1.2, -1.8, 1.
\* (Values in tenths, axis bounds in hundredths; round(range / 2) is the
\* nearest integer of the decimal range / 2, a tie going up.)
C19_AxisBounds ==
  chart # NoChart =>
    LET lo == IF Plotted = {} THEN 0 ELSE CHOOSE v \in Plotted : \A u \in Plotted : v <= u
        hi == IF Plotted = {} THEN 10 ELSE CHOOSE v \in Plotted : \A u \in Plotted : v >= u
        range == IF hi - lo < 10 THEN 10 ELSE hi - lo
    IN /\ chart.yMax = 10 * hi + 2 * range
       /\ chart.yMin = chart.yMax - 30 * range
       /\ \E n \in 0..700 : /\ 20 * n - 10 <= range /\ range < 20 * n + 10
                            /\ chart.step = IF n > 1 THEN n ELSE 1
       /\ chart.yMax - chart.yMin = 30 * range /\ 30 * range >= 300
       /\ chart.yMin < 10 * lo /\ lo <= hi /\ 10 * hi < chart.yMax
       /\ Plotted = {} => (chart.yMax = 120 /\ chart.yMin = -180 /\ chart.step = 1)

\* C20: once init has run the store is sorted ascending by day (by the
\* days its date texts name), and the
\* recent list of app.js shows its last 7 entries (or all, if fewer), the
\* most recent day first.
C20_SortedStore ==
  program # "none" =>
    /\ \A i, j \in 1..Len(entries) :
         i < j => DayOf(entries[i].entryDate) <= DayOf(entries[j].entryDate)
    /\ program = "app" =>
         LET n == IF Len(entries) < 7 THEN Len(entries) ELSE 7 IN
         /\ Len(recentList) = n
         /\ \A i \in 1..n :
              /\ recentList[i][1] = isoToMMDDYY(entries[Len(entries) + 1 - i].entryDate)
              /\ \A k \in 1..Len(entries) :
                   k < Len(entries) + 1 - i =>
                     DayOf(entries[k].entryDate)
                       <= DayOf(entries[Len(entries) + 1 - i].entryDate)

\* C21: every step that changes the store after init persists the whole
\* store in the same step, and once the snapshot equals the store no step
\* leaves the store newer than the snapshot.
C21_PersistWithUpsert ==
  /\ [][ (program # "none" /\ entries' # entries) => storage' = Stringify(entries') ]_vars
  /\ [][ (program # "none" /\ storage = Stringify(entries)) =>
           storage' = Stringify(entries') ]_vars

\* C21 witness: on a page loaded from a snapshot that holds a day twice,
\* 72.5 was saved for yesterday by a blur: one entry is left for that day
\* and the snapshot is the store.
C21_SnapshotIsStore ==
  /\ program = "part_001"
  /\ statusText = SavedStatus(725, shiftISO(Today0, -1))
  /\ Len(entries) = 1
  /\ entries[1].entryDate = shiftISO(Today0, -1) /\ entries[1].weight = 725
  /\ storage = Stringify(entries)

\* C22: the change listener of the date picker rejects an empty value and a
\* future day: selectedISO, the store and the snapshot stay, the save
\* button shows the error state and the status reads "Future dates
\* blocked."; any other day becomes selectedISO in that step, with the
\* button idle and the status empty.
C22_JumpTo ==
  [][ \A v \in PickerValues :
        DateChange(v) =>
          IF v = <<>> \/ DayOf(v) > DayOf(today)
            THEN /\ selectedISO' = selectedISO /\ entries' = entries /\ storage' = storage
                 /\ saveButton' = "error"
                 /\ statusText' = FutureStatus
            ELSE /\ selectedISO' = v /\ entries' = entries /\ storage' = storage
                 /\ saveButton' = "idle"
                 /\ statusText' = NoStatus
    ]_vars

\* C22 witness: after a jump to yesterday, a jump to a future day was
\* rejected: yesterday is still selected and the error is shown.
C22_RejectedJump ==
  /\ program = "app"
  /\ today = Today0
  /\ selectedISO = shiftISO(Today0, -1) /\ dateInput = selectedISO
  /\ saveButton = "error" /\ statusText = FutureStatus
  /\ idleTimers = 1

\* C23: a touchend of part_001 commits no navigation when the axis is
\* locked to vertical.
C23_VerticalNeverCommits ==
  [][ (TouchEndStep /\ lockDir = "v") => timers' = timers ]_vars


\* C24: a touchend of part_001 commits a navigation only for a gesture
\* that an accepted touchstart opened and that no earlier commit and no
\* touchcancel has closed, so each gesture commits at most once and no
\* touchend commits from the distX, distY and startTime of an earlier
\* gesture.
C24_OneCommitPerGesture ==
  [][ (TouchEndStep /\ timers' # timers) => armed ]_vars


\* C25: after init, every record a step puts into the store (by a blur,
\* Enter or the swipe callback of part_001, or by onSave of app.js) is for
\* the selected day, and that day is not after the wall clock's day at
\* the moment of the write.
C25_NoFutureWrite ==
  [][ (program # "none" /\ entries' # entries) =>
        \A i \in 1..Len(entries') :
          (\A j \in 1..Len(entries) : entries[j] # entries'[i]) =>
            /\ entries'[i].entryDate = selectedISO
            /\ DayOf(entries'[i].entryDate) <= DayOf(today')
    ]_vars

\* C25 witness: after midnight passed, a weight was saved for the new day,
\* the latest day a write can be for.
C25_SavedForNewDay ==
  /\ program # "none"
  /\ today = LastDay
  /\ findEntry(entries, LastDay) # <<>>
  /\ findEntry(entries, LastDay)[1].weight = 725


\* C26: when onSave of app.js upserts a weight for the selected day, the
\* text it parses was typed while that day was selected.
C26_StagedForSelectedDay ==
  [][ ((SaveClick \/ AppKeydownEnter) /\ saveButton' = "saved") =>
        typedISO = selectedISO ]_vars

====
